---- MODULE Spec2Model ----
(***************************************************************************)
(* Model of non_id_props: a property descriptor that stores the name of a  *)
(* non-ID item (vertex group, modifier, ...) on its holder, resolves the   *)
(* name on read, follows renames through the host's message bus and        *)
(* records its subscriptions in every scene so that they can be restored   *)
(* after a file load.                                                      *)
(*                                                                         *)
(* The host (bpy) is modelled by what the library uses of it: ID blocks    *)
(* with collections of named items, ID-property storage on holders, the    *)
(* message bus (subscribe_rna / clear_by_owner / notification delivery),   *)
(* the scenes' non_id_props collections and the load_post handler list.    *)
(***************************************************************************)
EXTENDS Integers, Sequences, FiniteSets, TLC

\* ------------------------------------------------------------------ bounds

\* Number of scenes in the file.
NumScenes == 2
\* Operations of one run: register() and unregister(), property writes that
\* get past the property's checks, renames and removals of items, file loads.
MaxOps == 4

\* ------------------------------------------------------------ host universe

\* Values a property can be given or return: an item, None, or whatever
\* a custom getter returns.
None == <<0, "None", 0>>
Custom == <<0, "custom", 0>>
Unset == "<unset>"
Removed == "<removed>"

\* The ID blocks of bpy.data.objects, in the collection's order.
Blocks == {1, 2}
LastBlock == CHOOSE b \in Blocks : \A c \in Blocks : c <= b
Scenes == 1..NumScenes
Names == {"a", "b", "c"}
Subtypes == {"vertex_groups", "modifiers"}
Paths == {"pa", "pb"}

\* The items of the file: <<block, collection, index>>.  Block 1 has two
\* vertex groups and a modifier, every other block one vertex group.
ItemCount(b, sub) ==
    IF sub = "vertex_groups" THEN (IF b = 1 THEN 2 ELSE 1)
    ELSE (IF b = 1 THEN 1 ELSE 0)

Items == {it \in Blocks \X Subtypes \X (1..2) : it[3] <= ItemCount(it[1], it[2])}

\* data_block.path_resolve(path): "pa" is a pointer property registered on
\* the ID type, so it resolves on every block; "pb" exists on block 1 only
\* and raises ValueError elsewhere.
Resolves(b, path) == path = "pa" \/ b = 1

Holders == {h \in Blocks \X Paths : Resolves(h[1], h[2])}

\* ------------------------------------------------------- program constants

\* types: translates ID type names to the collections of bpy.data.
types == [t \in {"Object", "Scene", "Mesh"} |->
            CASE t = "Object" -> "objects"
              [] t = "Scene" -> "scenes"
              [] t = "Mesh" -> "meshes"]

\* parent_cls.id_data.bl_rna.identifier of a holder: every holder of the
\* model lives on an Object.
IdType(b) == "Object"

\* The descriptors created with NonIDProperty(name, subtype, get, set, update):
\* one without callbacks, one with set and update callbacks, one with a
\* custom getter only.
Props == {"vgroup", "mod", "ro"}

PropCfg == [p \in Props |->
    CASE p = "vgroup" -> [subtype |-> "vertex_groups", get |-> FALSE,
                          set |-> FALSE, update |-> FALSE]
      [] p = "mod" -> [subtype |-> "modifiers", get |-> FALSE,
                       set |-> TRUE, update |-> TRUE]
      [] p = "ro" -> [subtype |-> "vertex_groups", get |-> TRUE,
                      set |-> FALSE, update |-> TRUE]]

\* ------------------------------------------------------------------- state

VARIABLES
    registered,  \* bpy.types.Scene.non_id_props exists (register() has run)
    names,       \* host: item -> its name, or Removed
    stored,      \* holder -> property -> the name kept under "_" + name, or Unset
    subs,        \* message bus: set of [owner, holder, item] subscriptions
    recs,        \* scene -> its non_id_props collection (sequence of MsgbusItem)
    pending,     \* subscriptions whose key changed and that await notification
    ops,         \* operations made so far
    last         \* the last operation: what was called, how it ended, its trace

vars == <<registered, names, stored, subs, recs, pending, ops, last>>

\* The part of the state the library's handlers read and write.
Lib == [stored |-> stored, subs |-> subs, recs |-> recs, tail |-> <<>>, log |-> <<>>]

Alive(it) == names[it] # Removed

\* col_prop[name]: the items of block b's collection sub carrying that name
\* (at most one: the host keeps names unique within a collection).
ItemsNamed(b, sub, n) ==
    {it \in Items : it[1] = b /\ it[2] = sub /\ names[it] = n}

\* getattr(id_data, subtype): the live items of a block's collection.
Collection(b, sub) == {it \in Items : it[1] = b /\ it[2] = sub /\ Alive(it)}

Ok(st) == [st |-> st, err |-> "none"]
Raise(st, e) == [st |-> st, err |-> e]

\* What a custom callback called with holder h can observe of property p.
Seen(st, p, h) ==
    [name |-> st.stored[h][p],
     subs |-> {s \in st.subs : s.owner = p},
     recs |-> st.recs]

NotSeen == [name |-> "-", subs |-> {}, recs |-> <<>>]

\* The trace of a handler: its steps in order, each for a property of a
\* holder, and for a callback what it could observe when it was called.
Logged(st, ev, p, h) ==
    [st EXCEPT !.log = Append(@, [ev |-> ev, p |-> p, h |-> h, item |-> None,
                                  seen |-> NotSeen])]

Called(st, ev, p, h, item) ==
    [st EXCEPT !.log = Append(@, [ev |-> ev, p |-> p, h |-> h, item |-> item,
                                  seen |-> Seen(st, p, h)])]

\* ------------------------------------------------- the scene's collection

\* collection.remove(i) on an ID-property array: the elements after i move
\* down one slot and the removed element is left behind the live part.
RemoveAt(rs, i) ==
    [live |-> SubSeq(rs.live, 1, i - 1) \o SubSeq(rs.live, i + 1, Len(rs.live)),
     tail |-> <<rs.live[i]>> \o rs.tail]

\* collection.add(): the new element takes the slot behind the live part.
AddTo(rs, r) ==
    [live |-> Append(rs.live, r),
     tail |-> IF rs.tail = <<>> THEN <<>> ELSE Tail(rs.tail)]

\* The loop of _remove_msgbus_item over one scene: enumerate() walks the
\* slots i..n of the collection as it was when the loop began, while
\* remove() shortens it; a slot behind the live part removes nothing.
RECURSIVE RemoveLoop(_, _, _, _)
RemoveLoop(rs, p, i, n) ==
    IF i > n THEN rs
    ELSE IF i <= Len(rs.live) /\ rs.live[i].name = p
         THEN RemoveLoop(RemoveAt(rs, i), p, i + 1, n)
         ELSE RemoveLoop(rs, p, i + 1, n)

SceneMem(st, sc) == [live |-> st.recs[sc], tail |-> IF sc = 1 THEN st.tail ELSE <<>>]

RECURSIVE RemoveMsgbusItemFrom(_, _, _)
RemoveMsgbusItemFrom(st, p, sc) ==
    IF sc > NumScenes THEN st
    ELSE LET rs == RemoveLoop(SceneMem(st, sc), p, 1, Len(st.recs[sc]))
         IN RemoveMsgbusItemFrom(
                [st EXCEPT !.recs[sc] = rs.live,
                           !.tail = IF sc = 1 THEN rs.tail ELSE @],
                p, sc + 1)

\* _remove_msgbus_item
RemoveMsgbusItem(st, p) == RemoveMsgbusItemFrom(st, p, 1)

FindRecordNever(rs, path, p) == 0

\* The for/else of _add_msgbus_item: the index of the first record with the
\* holder's path and the property's name, or 0.
FindRecord(rs, path, p) ==
    LET hits == {i \in 1..Len(rs) : rs[i].path = path /\ rs[i].name = p}
    IN IF hits = {} THEN 0 ELSE CHOOSE i \in hits : \A j \in hits : i <= j

NewRecord(p, h, item) ==
    [type |-> types[IdType(h[1])], path |-> h[2], name |-> p,
     non_id_prop_name |-> names[item]]

RECURSIVE AddMsgbusItemFrom(_, _, _, _, _)
AddMsgbusItemFrom(st, p, h, item, sc) ==
    IF sc > NumScenes THEN st
    ELSE LET i == FindRecord(st.recs[sc], h[2], p)
             rs == IF i = 0 THEN AddTo(SceneMem(st, sc), NewRecord(p, h, item))
                   ELSE [live |-> [st.recs[sc] EXCEPT ![i] = NewRecord(p, h, item)],
                         tail |-> st.tail]
         IN AddMsgbusItemFrom(
                [st EXCEPT !.recs[sc] = rs.live,
                           !.tail = IF sc = 1 THEN rs.tail ELSE @],
                p, h, item, sc + 1)

\* _add_msgbus_item
AddMsgbusItem(st, p, h, item) == AddMsgbusItemFrom(st, p, h, item, 1)

\* ------------------------------------------------------------ the property

RefreshMsgbusKeepsOld(st, p, h, item) ==
    [st EXCEPT !.subs = @ \cup {[owner |-> p, holder |-> h, item |-> item]}]

\* _refresh_msgbus: clear_by_owner(self), then subscribe_rna on the item's
\* name with args (self, parent_cls, parent_item).
RefreshMsgbus(st, p, h, item) ==
    [st EXCEPT !.subs = {s \in @ : s.owner # p}
                         \cup {[owner |-> p, holder |-> h, item |-> item]}]

\* _reset_prop
ResetProp(st, p, h) ==
    RemoveMsgbusItem([st EXCEPT !.stored[h][p] = Unset], p)

SetCallbacksUpdateFirst(st, p, h, item) ==
    LET cfg == PropCfg[p]
        s1 == IF cfg.update THEN Called(st, "update_cb", p, h, None) ELSE st
        s2 == IF cfg.set THEN Called(s1, "set_cb", p, h, item) ELSE s1
    IN Ok(s2)

\* The end of _set_prop: parent_set(parent_cls, context, parent_item), then
\* parent_update(parent_cls, context).
SetCallbacks(st, p, h, item) ==
    LET cfg == PropCfg[p]
        s1 == IF cfg.set THEN Called(st, "set_cb", p, h, item) ELSE st
        s2 == IF cfg.update THEN Called(s1, "update_cb", p, h, None) ELSE s1
    IN Ok(s2)

\* A property created with a custom get and no custom set.
ReadOnly(p) == PropCfg[p].get /\ ~PropCfg[p].set

SetChecksReadOnlyFirst(p) ==
    IF ReadOnly(p) THEN "AttributeError"
    ELSE IF ~registered THEN "RuntimeError"
    ELSE "none"

SetChecksWritable(p) ==
    IF ~registered THEN "RuntimeError" ELSE "none"

\* The checks that open _set_prop: what they raise, or "none".
SetChecks(p) ==
    IF ~registered THEN "RuntimeError"
    ELSE IF ReadOnly(p) THEN "AttributeError"
    ELSE "none"

\* _set_prop(parent_cls = h, value = v); v is None or a live item.
SetProp(st, p, h, v) ==
    IF SetChecks(p) # "none" THEN Raise(st, SetChecks(p))
    ELSE IF v = None THEN Ok(ResetProp(st, p, h))
    ELSE LET s1 == Logged([st EXCEPT !.stored[h][p] = names[v]], "store", p, h)
             found == ItemsNamed(h[1], PropCfg[p].subtype, s1.stored[h][p])
         IN IF found = {} THEN Raise(s1, "KeyError")
            ELSE LET item == CHOOSE it \in found : TRUE
                     s2 == Logged(s1, "resolve", p, h)
                     s3 == Logged(RefreshMsgbus(s2, p, h, item), "subscribe", p, h)
                     s4 == Logged(AddMsgbusItem(s3, p, h, item), "record", p, h)
                 IN SetCallbacks(s4, p, h, item)

GetPropSwallows(st, p, h) ==
    LET cfg == PropCfg[p] IN
    IF cfg.get THEN [st |-> st, err |-> "none", val |-> Custom]
    ELSE LET found == ItemsNamed(h[1], cfg.subtype, st.stored[h][p])
         IN IF found = {} THEN [st |-> st, err |-> "none", val |-> None]
            ELSE [st |-> st, err |-> "none", val |-> CHOOSE it \in found : TRUE]

\* _get_prop(parent_cls = h): the value returned, or the error raised.
\* A custom getter's result is the caller's own; it is shown as "custom".
GetProp(st, p, h) ==
    LET cfg == PropCfg[p] IN
    IF cfg.get THEN [st |-> st, err |-> "none", val |-> Custom]
    ELSE IF st.stored[h][p] = Unset THEN [st |-> st, err |-> "none", val |-> None]
    ELSE LET found == ItemsNamed(h[1], cfg.subtype, st.stored[h][p])
         IN IF found = {} THEN [st |-> st, err |-> "AttributeError", val |-> None]
            ELSE [st |-> st, err |-> "none", val |-> CHOOSE it \in found : TRUE]

\* ------------------------------------------------------------ the handlers

\* Slot k of scenes[0].non_id_props as a running loop sees it: the live
\* element, or what was left behind the live part by a removal.
IsStale(st, k) == k > Len(st.recs[1])
Slot(st, k) ==
    IF IsStale(st, k) THEN st.tail[k - Len(st.recs[1])] ELSE st.recs[1][k]

\* for data_block in data_blocks (blocks b..LastBlock) of _on_change, for
\* the record in slot k; cur is the holder parent_cls is bound to.
RECURSIVE OnChangeBlocks(_, _, _, _, _, _)
OnChangeBlocks(st, cur, item, k, type, b) ==
    IF b > LastBlock THEN [st |-> st, err |-> "none", cur |-> cur]
    ELSE LET r == Slot(st, k) IN
         IF types[IdType(b)] # type \/ ~Resolves(b, r.path)
         THEN OnChangeBlocks(st, cur, item, k, type, b + 1)
         ELSE LET h == <<b, r.path>>
                  res == SetProp(st, r.name, h, item)
              IN IF res.err # "none"
                 THEN [st |-> res.st, err |-> res.err, cur |-> h]
                 ELSE OnChangeBlocks(res.st, h, item, k, type, b + 1)

\* for item in msgbus_items (slots k..n) of _on_change.
RECURSIVE OnChangeItems(_, _, _, _, _, _)
OnChangeItems(st, p, cur, item, k, n) ==
    IF k > n THEN Ok(st)
    ELSE LET r == Slot(st, k) IN
         IF st.stored[cur][p] = Unset THEN Raise(st, "KeyError")
         ELSE IF r.non_id_prop_name = st.stored[cur][p] \/ names[item] = st.stored[cur][p]
         THEN LET res == OnChangeBlocks(st, cur, item, k, r.type, 1)
              IN IF res.err # "none" THEN Raise(res.st, res.err)
                 ELSE OnChangeItems(res.st, p, res.cur, item, k + 1, n)
         ELSE OnChangeItems(st, p, cur, item, k + 1, n)

\* _on_change(self = p, parent_cls = h, parent_item = item)
OnChange(st, p, h, item) ==
    IF ~registered THEN Raise(st, "AttributeError")
    ELSE OnChangeItems(st, p, h, item, 1, Len(st.recs[1]))

\* for data_block in data_blocks (blocks b..LastBlock) of
\* non_id_prop_on_load, for the record in slot k.  Reading a slot that a
\* removal has left behind the live part reads freed memory: with ub =
\* "stop" the handler ends there, with ub = "stale" the old content is read.
RECURSIVE OnLoadBlocks(_, _, _, _, _)
OnLoadBlocks(st, k, type, b, ub) ==
    IF b > LastBlock THEN Ok(st)
    ELSE IF IsStale(st, k) /\ ub = "stop" THEN Raise(st, "crash")
    ELSE LET r == Slot(st, k) IN
         IF types[IdType(b)] # type \/ ~Resolves(b, r.path)
         THEN OnLoadBlocks(st, k, type, b + 1, ub)
         ELSE LET h == <<b, r.path>>
                  got == GetProp(st, r.name, h)
              IN IF got.err # "none" THEN Raise(got.st, got.err)
                 ELSE LET res == SetProp(got.st, r.name, h, got.val)
                      IN IF res.err # "none" THEN res
                         ELSE OnLoadBlocks(res.st, k, type, b + 1, ub)

\* for item in msgbus_items (slots k..n) of non_id_prop_on_load.
RECURSIVE OnLoadItems(_, _, _, _)
OnLoadItems(st, k, n, ub) ==
    IF k > n THEN Ok(st)
    ELSE IF IsStale(st, k) /\ ub = "stop" THEN Raise(st, "crash")
    ELSE LET res == OnLoadBlocks(st, k, Slot(st, k).type, 1, ub)
         IN IF res.err # "none" THEN res
            ELSE OnLoadItems(res.st, k + 1, n, ub)

\* non_id_prop_on_load(dummy)
NonIdPropOnLoad(st, ub) == OnLoadItems(st, 1, Len(st.recs[1]), ub)

\* --------------------------------------------------------------- the system

NoHolder == <<0, "-">>

\* The properties (of holders without a custom getter) that resolve to an
\* item, as subscriptions would name them.
Referencing(st) ==
    {[owner |-> p, holder |-> h, item |-> GetProp(st, p, h).val] :
        <<p, h>> \in {x \in Props \X Holders :
                        /\ ~PropCfg[x[1]].get
                        /\ GetProp(st, x[1], x[2]).err = "none"
                        /\ GetProp(st, x[1], x[2]).val # None}}

Changed(st) == st.stored # stored \/ st.subs # subs \/ st.recs # recs

\* The record of the last operation: the call (a call of the property that
\* raised before it stored anything is recorded by its property alone), how
\* it ended, whether it changed the library's state, and its trace.
Result(op, p, h, v, res, ref, refs) ==
    LET early == op = "set" /\ res.err # "none" /\ res.st.log = <<>> IN
    [op |-> op, p |-> p, h |-> IF early THEN NoHolder ELSE h,
     v |-> IF early THEN None ELSE v, err |-> res.err,
     log |-> res.st.log, changed |-> Changed(res.st), ref |-> ref, refs |-> refs]

InitNames ==
    [it \in Items |-> IF it[2] = "vertex_groups" /\ it[3] = 2 THEN "b" ELSE "a"]

Init ==
    /\ registered = FALSE
    /\ names = InitNames
    /\ stored = [h \in Holders |-> [p \in Props |-> Unset]]
    /\ subs = {}
    /\ recs = [sc \in Scenes |-> <<>>]
    /\ pending = {}
    /\ ops = 0
    /\ last = Result("init", "-", NoHolder, None, Ok(Lib), FALSE, {})

Commit(res) ==
    /\ stored' = res.st.stored
    /\ subs' = res.st.subs
    /\ recs' = res.st.recs

\* The host's event loop delivers the notifications of an edit before it
\* runs anything else.
Idle == pending = {}

\* register()
Register ==
    /\ Idle /\ ~registered /\ ops < MaxOps
    /\ registered' = TRUE
    /\ ops' = ops + 1
    /\ last' = Result("register", "-", NoHolder, None, Ok(Lib), FALSE, {})
    /\ UNCHANGED <<names, stored, subs, recs, pending>>

\* unregister(): the scenes keep their ID-property data
Unregister ==
    /\ Idle /\ registered /\ ops < MaxOps
    /\ registered' = FALSE
    /\ ops' = ops + 1
    /\ last' = Result("unregister", "-", NoHolder, None, Ok(Lib), FALSE, {})
    /\ UNCHANGED <<names, stored, subs, recs, pending>>

\* A script assigns holder.p = v.
Set(p, h, v) ==
    /\ Idle
    /\ IF v = None THEN TRUE ELSE v \in Collection(h[1], PropCfg[p].subtype)
    /\ LET res == SetProp(Lib, p, h, v) IN
        /\ res.err = "none" => ops < MaxOps
        /\ Commit(res)
        /\ last' = Result("set", p, h, v, res, FALSE, {})
        /\ ops' = IF res.err = "none" THEN ops + 1 ELSE ops
    /\ UNCHANGED <<registered, names, pending>>

\* A script reads holder.p: the value goes to the script, the file keeps
\* what _get_prop leaves of it.
Get(p, h) ==
    /\ Idle
    /\ Commit(GetProp(Lib, p, h))
    /\ UNCHANGED <<registered, names, pending, ops, last>>

\* The host renames an item; the bus marks the subscriptions on its name.
Rename(it, n) ==
    /\ Idle /\ ops < MaxOps
    /\ Alive(it)
    /\ ItemsNamed(it[1], it[2], n) = {}
    /\ names' = [names EXCEPT ![it] = n]
    /\ pending' = {[sub |-> s, ref |-> s \in Referencing(Lib)] : s \in {x \in subs : x.item = it}}
    /\ ops' = ops + 1
    /\ last' = Result("rename", "-", NoHolder, it, Ok(Lib), FALSE, {})
    /\ UNCHANGED <<registered, stored, subs, recs>>

\* The host removes an item from its collection.
Remove(it) ==
    /\ Idle /\ ops < MaxOps
    /\ Alive(it)
    /\ names' = [names EXCEPT ![it] = Removed]
    /\ ops' = ops + 1
    /\ last' = Result("remove", "-", NoHolder, it, Ok(Lib), FALSE, {})
    /\ UNCHANGED <<registered, stored, subs, recs, pending>>

\* The bus calls notify(*args) of a marked subscription.
Deliver(d) ==
    /\ d \in pending
    /\ LET res == OnChange(Lib, d.sub.owner, d.sub.holder, d.sub.item) IN
        /\ Commit(res)
        /\ pending' = {x \in pending \ {d} : x.sub \in res.st.subs}
        /\ last' = Result("deliver", d.sub.owner, d.sub.holder, d.sub.item, res, d.ref, {})
    /\ UNCHANGED <<registered, names, ops>>

\* The host loads the file: every subscription is dropped, then the
\* load_post handlers run (non_id_prop_on_load is one of them once
\* register() has run).
LoadFile(ub) ==
    /\ Idle /\ ops < MaxOps
    /\ LET st0 == [Lib EXCEPT !.subs = {}]
           res == IF registered THEN NonIdPropOnLoad(st0, ub) ELSE Ok(st0)
       IN /\ Commit(res)
          /\ last' = Result("load", "-", NoHolder, None, res, FALSE, Referencing(Lib))
    /\ ops' = ops + 1
    /\ UNCHANGED <<registered, names, pending>>

Next ==
    \/ Register
    \/ Unregister
    \/ \E p \in Props, h \in Holders, v \in Items \cup {None} : Set(p, h, v)
    \/ \E p \in Props, h \in Holders : Get(p, h)
    \/ \E it \in Items, n \in Names : Rename(it, n)
    \/ \E it \in Items : Remove(it)
    \/ \E d \in pending : Deliver(d)
    \/ \E ub \in {"stop", "stale"} : LoadFile(ub)

Spec == Init /\ [][Next]_vars

\* ------------------------------------------------------------------ claims

Reads(p, h) == GetProp(Lib, p, h)

\* C1: for a property with no custom getter, once an item the property
\* referenced has been renamed and the rename notification has been
\* delivered, reading the property returns that same item.
C1_RenameFollowed ==
    (last.op = "deliver" /\ last.ref /\ ~PropCfg[last.p].get)
        => (Reads(last.p, last.h).err = "none" /\ Reads(last.p, last.h).val = last.v)

\* The property p of holder h stores the name of item i and reads as i.
References(p, h, i) ==
    /\ stored[h][p] = names[i]
    /\ Reads(p, h).err = "none"
    /\ Reads(p, h).val = i

\* The last operation was a write holder.p = v by a script that returned.
SetReturned == last.op = "set" /\ last.err = "none"

\* Right after a script's write of an item the property references it.
RoundTrip ==
    (SetReturned /\ last.v # None /\ ~PropCfg[last.p].get)
        => References(last.p, last.h, last.v)

\* C2: after set(holder, item) returns, for an item of the holder's own
\* collection and a property with no custom getter, the holder stores the
\* item's name and get(holder) returns the item, for as long as the item is
\* neither renamed nor removed (and no script writes the property again).
C2_SetGetRoundTrip ==
    [][/\ RoundTrip'
       /\ \A p \in Props, h \in Holders, i \in Items :
            (/\ ~PropCfg[p].get
             /\ References(p, h, i)
             /\ names'[i] = names[i]
             /\ ~(last'.op = "set" /\ last'.p = p /\ last'.h = h))
                => References(p, h, i)']_vars

\* C3: after a file load has dropped every subscription and
\* non_id_prop_on_load has run, every holder property that referenced an
\* existing item before the load has a subscription for that item again.
C3_LoadRestoresAll ==
    (last.op = "load" /\ registered /\ last.err = "none") => last.refs \subseteq subs

OwnedBy(p) == {s \in subs : s.owner = p}

\* C4: when set(holder, item) returns, the property owns exactly one
\* subscription: the one on item, with arguments (property, holder, item);
\* none on an item it referenced before remains.
C4_SetResubscribes ==
    (SetReturned /\ last.v # None)
        => OwnedBy(last.p) = {[owner |-> last.p, holder |-> last.h, item |-> last.v]}

\* A write of a property that another holder has stored another name for,
\* so that the property owned a subscription on another item before.
C4_Witness ==
    /\ SetReturned /\ last.v # None
    /\ OwnedBy(last.p) # {}
    /\ \E h \in Holders \ {last.h} : stored[h][last.p] \notin {Unset, names[last.v]}

RecordsOf(sc, path, p) ==
    {i \in 1..Len(recs[sc]) : recs[sc][i].path = path /\ recs[sc][i].name = p}

\* C5: when set(holder, item) returns, every scene holds exactly one record
\* with the holder's path and the property's name; it carries the item's
\* current name and the collection of the holder's ID block.
C5_SetRegistersRecord ==
    (SetReturned /\ last.v # None)
        => \A sc \in Scenes :
            /\ Cardinality(RecordsOf(sc, last.h[2], last.p)) = 1
            /\ \A i \in RecordsOf(sc, last.h[2], last.p) :
                /\ recs[sc][i].non_id_prop_name = names[last.v]
                /\ recs[sc][i].type = types[IdType(last.h[1])]

\* A second write through the same path: the record of the first is reused.
C5_Witness ==
    /\ SetReturned /\ last.v # None /\ ops = 3
    /\ \E h \in Holders \ {last.h} : h[2] = last.h[2] /\ stored[h][last.p] # Unset
    /\ \A sc \in Scenes : Len(recs[sc]) = 1

\* C6: after set(holder, None) returns, get(holder) returns None (for a
\* property without a custom getter), no scene holds a record with the
\* property's name, and no custom callback was called.
C6_SetNoneClears ==
    (SetReturned /\ last.v = None)
        => /\ ~PropCfg[last.p].get
                => (Reads(last.p, last.h).err = "none" /\ Reads(last.p, last.h).val = None)
           /\ \A sc \in Scenes : \A i \in 1..Len(recs[sc]) : recs[sc][i].name # last.p
           /\ last.log = <<>>

\* The values a script can pass to a property: None or a live item.
Values == {None} \cup {it \in Items : Alive(it)}

Dangling(p, h) ==
    stored[h][p] # Unset /\ ItemsNamed(h[1], PropCfg[p].subtype, stored[h][p]) = {}

\* C7: get(holder) without a custom getter returns None when the property
\* is not set, and raises AttributeError when the stored name no longer
\* names an item of the holder's collection; it changes no state.
C7_GetUnsetOrRemoved ==
    \A p \in Props, h \in Holders :
        ~PropCfg[p].get =>
            /\ stored[h][p] = Unset
                => (Reads(p, h).err = "none" /\ Reads(p, h).val = None)
            /\ Dangling(p, h) => Reads(p, h).err = "AttributeError"
            /\ Reads(p, h).st = Lib

\* An item was removed while a property stored its name, and another
\* holder's property has not been set.
C7_Witness ==
    /\ last.op = "remove"
    /\ \E p \in Props, h \in Holders :
        /\ ~PropCfg[p].get /\ Dangling(p, h)
        /\ stored[h][p] \notin {names[it] : it \in Items}
    /\ \E p \in Props, h \in Holders : ~PropCfg[p].get /\ stored[h][p] = Unset

\* C8: while the module is not registered, every set raises RuntimeError
\* and leaves stored names, subscriptions and records as they were, also
\* on a read-only property.
C8_UnregisteredSetRaises ==
    ~registered =>
        /\ \A p \in Props, h \in Holders, v \in Values :
              SetProp(Lib, p, h, v) = Raise(Lib, "RuntimeError")
        /\ last.op = "set" => (last.err = "RuntimeError" /\ ~last.changed)

\* A write of the read-only property after unregister(), with names,
\* subscriptions and records present.
C8_Witness ==
    /\ ~registered
    /\ last.op = "set" /\ last.p = "ro" /\ last.err = "RuntimeError"
    /\ subs # {} /\ recs[1] # <<>>
    /\ \E h \in Holders, p \in Props : stored[h][p] # Unset

\* C9: with the module registered, every set on a property created with a
\* custom get and no custom set raises AttributeError and leaves stored
\* names, subscriptions and records as they were.
C9_ReadOnlySetRaises ==
    registered =>
        /\ \A p \in Props, h \in Holders, v \in Values :
              ReadOnly(p) => SetProp(Lib, p, h, v) = Raise(Lib, "AttributeError")
        /\ (last.op = "set" /\ ReadOnly(last.p))
              => (last.err = "AttributeError" /\ ~last.changed)

C9_Witness ==
    /\ registered
    /\ last.op = "set" /\ ReadOnly(last.p) /\ last.err = "AttributeError"
    /\ subs # {} /\ recs[1] # <<>>

Events(log) == [i \in 1..Len(log) |-> log[i].ev]

ExpectedEvents(p) ==
    <<"store", "resolve", "subscribe", "record">>
        \o (IF PropCfg[p].set THEN <<"set_cb">> ELSE <<>>)
        \o (IF PropCfg[p].update THEN <<"update_cb">> ELSE <<>>)

\* C10: a successful set with a non-None value stores the name, resolves
\* the item, replaces the subscription, writes the record, then calls the
\* custom set callback with the resolved item and then the custom update
\* callback, each once, and each sees the fully updated state.
C10_SetOrder ==
    (SetReturned /\ last.v # None)
        => /\ Events(last.log) = ExpectedEvents(last.p)
           /\ \A i \in 1..Len(last.log) :
                /\ last.log[i].p = last.p /\ last.log[i].h = last.h
                /\ last.log[i].ev \in {"set_cb", "update_cb"}
                    => last.log[i].seen = Seen(Lib, last.p, last.h)
                /\ last.log[i].ev = "set_cb" => last.log[i].item = last.v

\* A write of the property that has both callbacks, replacing an earlier
\* subscription and record.
C10_Witness ==
    /\ SetReturned /\ last.v # None
    /\ PropCfg[last.p].set /\ PropCfg[last.p].update
    /\ \E h \in Holders \ {last.h} : stored[h][last.p] # Unset

\* The subscriptions that the properties referencing an item call for.
Referenced == Referencing(Lib)

\* Every holder whose property references an item is subscribed for it.
AllSubscribed == Referenced \subseteq subs

\* C11: a returning set keeps every referencing holder subscribed: from a
\* state where each holder whose property references an item has a
\* subscription for that item, a set of a property on any holder leads to
\* such a state again; a set on a second holder does not remove the
\* subscription of the first.
C11_SetKeepsSubscriptions ==
    [][(SetReturned' /\ AllSubscribed) => AllSubscribed']_vars

\* What reading property p of holder h gives: the item or the error.
Resolved(p, h) == [err |-> Reads(p, h).err, val |-> Reads(p, h).val]

\* The value of every property of every holder: stored name and reading.
HolderValues ==
    [h \in Holders |-> [p \in Props |->
        [name |-> stored[h][p], reads |-> Resolved(p, h)]]]

\* The step is the delivery of a notification.
Delivering == pending # {} /\ pending' # pending

\* C12: the delivery of the rename notification for the item that property
\* P of holder H referenced raises no error and changes nothing but the
\* stored name of P on H: every other property of H and every property of
\* every other holder keeps its stored name and the item it resolves to.
C12_DeliverChangesOnlyTarget ==
    [][(Delivering /\ last'.ref)
        => /\ last'.err = "none"
           /\ \A p \in Props, h \in Holders :
                <<p, h>> # <<last'.p, last'.h>>
                    => HolderValues'[h][p] = HolderValues[h][p]]_vars

\* The step is a file load with non_id_prop_on_load among the handlers.
Loading == registered /\ last'.op = "load" /\ ops' = ops + 1

\* C13: non_id_prop_on_load leaves the records of every scene and the
\* value of every property of every holder as they were, also when an ID
\* block of a record's type has the property unset.
C13_LoadKeepsRecordsAndValues ==
    [][Loading => (recs' = recs /\ HolderValues' = HolderValues)]_vars

====
